---------------------------- MODULE Spec2Model ----------------------------
(***************************************************************************)
(* A model of the DNS message codec of dingo (src/src/message.rs and the   *)
(* modules it uses).  Byte buffers are sequences of 0..255; a Rust slice   *)
(* &buf[lo..hi] of the message buffer is the record [lo, hi] of 0-based    *)
(* offsets into it; an AsciiString is the sequence of its byte values.     *)
(* A parser returns a record whose kind is                                 *)
(*   "ok"       Ok((rest, value))                                          *)
(*   "err"      a nom Err (why names nom's ErrorKind, or Incomplete)       *)
(*   "panic"    the thread panicked (unwrap on Err, assert!, slice index)  *)
(*   "overflow" the recursion ran out of call stack (the process aborts)   *)
(* Fields marked "ghost" are bookkeeping the Rust values do not hold.      *)
(***************************************************************************)
EXTENDS Integers, Sequences, FiniteSets, TLC

VARIABLES
    pc,          \* the position of the run: which call has returned
    input,       \* the byte buffer handed to the parser (MsgParser.input)
    start,       \* the offset a name decode was started at
    isize_bits,  \* the width of isize on the build target (32 or 64)
    ret,         \* the value the last call returned
    query,       \* the arguments of Message::new_query
    msg,         \* the result of Message::new_query
    body,        \* the result of Message::serialize_bytes
    io           \* what the query flow did: datagrams sent and received,
                 \* lines printed

vars == <<pc, input, start, isize_bits, ret, query, msg, body, io>>

\* no datagram sent or received, nothing printed
NoIO == [sends |-> 0, recvs |-> 0, len |-> 0, out |-> <<>>]

-----------------------------------------------------------------------------
(* Bounds of the model *)

\* Call-stack frames parse_name may nest before the stack is exhausted.  It
\* exceeds the number of pointers in every buffer of the model, so a decode
\* that follows each pointer of the buffer at most once never reaches it.
StackLimit == 4

\* Length of the longest chain of backward pointers in NameBuffers.
MaxChain == 3

\* Most labels in a generated domain name.
MaxLabels == 4

-----------------------------------------------------------------------------
(* Program constants *)

POINTER_HEADER == 192
MAX_LABEL_BYTES == 63
MAX_NAME_BYTES == 255
EXPECTED_SIZE_BYTES == 12

Dot == 46

-----------------------------------------------------------------------------
(* Slices and parser results *)

Slice(lo, hi) == [lo |-> lo, hi |-> hi]
SliceLen(i) == i.hi - i.lo
NoSlice == Slice(0, 0)
\* buf[k] of Rust, 0-based
At(buf, k) == buf[k + 1]
\* buf[lo..hi] as an owned byte string
Bytes(buf, lo, hi) == SubSeq(buf, lo + 1, hi)

Ok(rest, val) == [kind |-> "ok", rest |-> rest, val |-> val, why |-> "none"]
Fail(kind, why) == [kind |-> kind, rest |-> NoSlice, val |-> <<>>, why |-> why]

\* nom::number::complete::be_u8 / be_u16
be_u8(buf, i) ==
    IF SliceLen(i) < 1 THEN Fail("err", "Eof")
    ELSE Ok(Slice(i.lo + 1, i.hi), At(buf, i.lo))

be_u16(buf, i) ==
    IF SliceLen(i) < 2 THEN Fail("err", "Eof")
    ELSE Ok(Slice(i.lo + 2, i.hi), At(buf, i.lo) * 256 + At(buf, i.lo + 1))

\* A u32 is kept as two 16-bit limbs (hi, lo): value = hi * 2^16 + lo.
U32(hi, lo) == [hi |-> hi, lo |-> lo]

be_u32(buf, i) ==
    IF SliceLen(i) < 4 THEN Fail("err", "Eof")
    ELSE Ok(Slice(i.lo + 4, i.hi),
            U32(At(buf, i.lo) * 256 + At(buf, i.lo + 1),
                At(buf, i.lo + 2) * 256 + At(buf, i.lo + 3)))

IsAscii(s) == \A k \in 1..Len(s) : s[k] < 128

\* Let(v, LAMBDA x : e) is e with x bound to the value of v:
\* Rust's `let x = v; e`, v evaluated once.
Let(v, F(_)) == CHOOSE y \in { F(x) : x \in {v} } : TRUE

-----------------------------------------------------------------------------
(* src/src/parse.rs *)

\* parse_label: one length byte below 64, then that many ASCII bytes.
parse_label(buf, i) ==
    IF SliceLen(i) < 1 THEN Fail("err", "Eof")
    ELSE LET num == At(buf, i.lo) IN
         IF num >= 64 THEN Fail("err", "MapRes")
         ELSE IF SliceLen(i) - 1 < num THEN Fail("err", "Incomplete")
         ELSE LET data == Bytes(buf, i.lo + 1, i.lo + 1 + num) IN
              IF ~IsAscii(data) THEN Fail("err", "MapRes")
              ELSE Ok(Slice(i.lo + 1 + num, i.hi), data)

\* parse_labels_then_zero: labels up to and including the zero-length one.
RECURSIVE parse_labels_then_zero(_, _)
parse_labels_then_zero(buf, i) ==
    Let(parse_label(buf, i), LAMBDA l :
    IF l.kind # "ok" THEN l
    ELSE IF Len(l.val) = 0 THEN Ok(l.rest, <<l.val>>)
    ELSE Let(parse_labels_then_zero(buf, l.rest), LAMBDA t :
         IF t.kind # "ok" THEN t
         ELSE Ok(t.rest, <<l.val>> \o t.val)))

-----------------------------------------------------------------------------
(* src/src/message.rs: MsgParser::parse_name *)

\* ghost: derefs counts the pointers dereferenced while decoding the name,
\* fwd tells whether one of them had a target at or after its own offset.
NameOk(rest, name, derefs, fwd) ==
    [kind |-> "ok", rest |-> rest, val |-> name, why |-> "none",
     derefs |-> derefs, fwd |-> fwd]
NameFail(kind, why, derefs, fwd) ==
    [kind |-> kind, rest |-> NoSlice, val |-> <<>>, why |-> why,
     derefs |-> derefs, fwd |-> fwd]

\* let dereference_pointer = |ptr| (ptr - ((POINTER_HEADER as u16) << 8)) as usize
dereference_pointer(ptr) == ptr - POINTER_HEADER * 256

\* A parse_name that, after a pointer, goes on where the decode of the
\* pointer's target stopped instead of after the two bytes of the pointer.
RECURSIVE parse_name_resume_at_target(_, _, _)
parse_name_resume_at_target(buf, i, depth) ==
    IF depth > StackLimit THEN NameFail("overflow", "stack", 0, FALSE)
    ELSE IF SliceLen(i) < 1 THEN NameFail("err", "Eof", 0, FALSE)
    ELSE IF At(buf, i.lo) >= POINTER_HEADER
    THEN Let(be_u16(buf, i), LAMBDA p16 :
         IF p16.kind # "ok" THEN NameFail("err", p16.why, 0, FALSE)
         ELSE Let(dereference_pointer(p16.val), LAMBDA next_label_offset :
              IF next_label_offset > Len(buf)
              THEN NameFail("panic", "slice index", 0, next_label_offset >= i.lo)
              ELSE Let(parse_name_resume_at_target(
                           buf, Slice(next_label_offset, Len(buf)), depth + 1),
                       LAMBDA p :
                   CASE p.kind = "ok" ->
                          NameOk(p.rest, p.val, p.derefs + 1,
                                 p.fwd \/ next_label_offset >= i.lo)
                     [] p.kind = "err" ->
                          NameFail("panic", "unwrap", p.derefs + 1,
                                   p.fwd \/ next_label_offset >= i.lo)
                     [] OTHER ->
                          NameFail(p.kind, p.why, p.derefs + 1,
                                   p.fwd \/ next_label_offset >= i.lo))))
    ELSE Let(parse_label(buf, i), LAMBDA l :
         IF l.kind # "ok" THEN NameFail("err", l.why, 0, FALSE)
         ELSE IF Len(l.val) = 0 THEN NameOk(l.rest, <<>>, 0, FALSE)
         ELSE Let(parse_name_resume_at_target(buf, l.rest, depth), LAMBDA t :
              IF t.kind = "ok"
              THEN NameOk(t.rest, l.val \o <<Dot>> \o t.val, t.derefs, t.fwd)
              ELSE t))

\* One call of parse_name on the slice `i` of the message `buf`, `depth`
\* frames of parse_name below it.  The loop over literal labels is the
\* recursion at the same depth; a pointer recurses one frame deeper.
RECURSIVE parse_name(_, _, _)
parse_name(buf, i, depth) ==
    IF depth > StackLimit THEN NameFail("overflow", "stack", 0, FALSE)
    ELSE IF SliceLen(i) < 1 THEN NameFail("err", "Eof", 0, FALSE)
    ELSE IF At(buf, i.lo) >= POINTER_HEADER
    THEN Let(be_u16(buf, i), LAMBDA p16 :
         IF p16.kind # "ok" THEN NameFail("err", p16.why, 0, FALSE)
         ELSE Let(dereference_pointer(p16.val), LAMBDA next_label_offset :
              \* &self.input[next_label_offset..] panics past the end
              IF next_label_offset > Len(buf)
              THEN NameFail("panic", "slice index", 0, next_label_offset >= i.lo)
              ELSE Let(parse_name(buf, Slice(next_label_offset, Len(buf)),
                                  depth + 1), LAMBDA p :
                   CASE p.kind = "ok" ->
                          NameOk(p16.rest, p.val, p.derefs + 1,
                                 p.fwd \/ next_label_offset >= i.lo)
                     [] p.kind = "err" ->      \* .unwrap()
                          NameFail("panic", "unwrap", p.derefs + 1,
                                   p.fwd \/ next_label_offset >= i.lo)
                     [] OTHER ->
                          NameFail(p.kind, p.why, p.derefs + 1,
                                   p.fwd \/ next_label_offset >= i.lo))))
    ELSE Let(parse_label(buf, i), LAMBDA l :
         IF l.kind # "ok" THEN NameFail("err", l.why, 0, FALSE)
         ELSE IF Len(l.val) = 0 THEN NameOk(l.rest, <<>>, 0, FALSE)
         ELSE Let(parse_name(buf, l.rest, depth), LAMBDA t :
              IF t.kind = "ok"
              THEN NameOk(t.rest, l.val \o <<Dot>> \o t.val, t.derefs, t.fwd)
              ELSE t))

-----------------------------------------------------------------------------
(* src/src/dns_types.rs *)

TryOk(v) == [ok |-> TRUE, val |-> v]
TryErr(v) == [ok |-> FALSE, val |-> v]

\* impl TryFrom<u16> for RecordType
RecordType_try_from(value) ==
    CASE value = 1 -> TryOk("A")
      [] value = 28 -> TryOk("Aaaa")
      [] value = 5 -> TryOk("Cname")
      [] value = 6 -> TryOk("Soa")
      [] value = 2 -> TryOk("Ns")
      [] OTHER -> TryErr(value)

\* RecordType::serialize: the 16-bit tag written
RecordType_num(rt) ==
    CASE rt = "A" -> 1
      [] rt = "Aaaa" -> 28
      [] rt = "Cname" -> 5
      [] rt = "Soa" -> 6
      [] rt = "Ns" -> 2

RecordTypes == {"A", "Aaaa", "Cname", "Soa", "Ns"}

\* impl TryFrom<u16> for Class
Class_try_from(value) ==
    IF value = 1 THEN TryOk("IN") ELSE TryErr(value)

\* Class::serialize
Class_num(c) == 1

\* map_res(be_u16, RecordType::try_from)
be_u16_record_type(buf, i) ==
    Let(be_u16(buf, i), LAMBDA n :
    IF n.kind # "ok" THEN n
    ELSE Let(RecordType_try_from(n.val), LAMBDA t :
         IF t.ok THEN Ok(n.rest, t.val) ELSE Fail("err", "MapRes")))

\* map_res(be_u16, Class::try_from)
be_u16_class(buf, i) ==
    Let(be_u16(buf, i), LAMBDA n :
    IF n.kind # "ok" THEN n
    ELSE Let(Class_try_from(n.val), LAMBDA t :
         IF t.ok THEN Ok(n.rest, t.val) ELSE Fail("err", "MapRes")))

-----------------------------------------------------------------------------
(* src/src/message/header.rs *)

\* impl TryFrom<u8> for Opcode
Opcode_try_from(value) ==
    CASE value = 0 -> TryOk("Query")
      [] value = 1 -> TryOk("InverseQuery")
      [] value = 2 -> TryOk("Status")
      [] OTHER -> TryErr(value)

\* impl TryFrom<u8> for ResponseCode
ResponseCode_try_from(value) ==
    CASE value = 0 -> TryOk("NoError")
      [] value = 1 -> TryOk("FormatError")
      [] value = 2 -> TryOk("ServerFailure")
      [] value = 3 -> TryOk("NameError")
      [] value = 4 -> TryOk("NotImplemented")
      [] value = 5 -> TryOk("Refused")
      [] OTHER -> TryErr(value)

\* bit k (0 = most significant) of a byte, and the n-bit field starting there
BitOf(byte, k) == (byte \div (2 ^ (7 - k))) % 2
Field(byte, k, n) == (byte \div (2 ^ (8 - k - n))) % (2 ^ n)

\* Header::deserialize under nom::bits::bits, on the slice i.  The fields are
\* taken in wire order, so the first failing one decides the outcome: a short
\* buffer is an Eof error at the first field that needs the missing byte.
Header_deserialize(buf, i) ==
    IF SliceLen(i) < 2 THEN Fail("err", "Eof")                       \* id
    ELSE IF SliceLen(i) < 3 THEN Fail("err", "Eof")                  \* qr
    ELSE LET b2 == At(buf, i.lo + 2)
             opcode == Opcode_try_from(Field(b2, 1, 4))
         IN
         IF ~opcode.ok THEN Fail("err", "MapRes")
         ELSE IF SliceLen(i) < 4 THEN Fail("err", "Eof")             \* ra
         ELSE LET b3 == At(buf, i.lo + 3)
                  rcode == ResponseCode_try_from(Field(b3, 4, 4))
              IN
              \* for _ in 0..3 { (i, z) = take_bit(i)?; assert!(!z); }
              IF \E k \in 1..3 : BitOf(b3, k) # 0 THEN Fail("panic", "assert")
              ELSE IF ~rcode.ok THEN Fail("err", "MapRes")
              ELSE IF SliceLen(i) < EXPECTED_SIZE_BYTES THEN Fail("err", "Eof")
              ELSE Ok(Slice(i.lo + EXPECTED_SIZE_BYTES, i.hi),
                      [id |-> At(buf, i.lo) * 256 + At(buf, i.lo + 1),
                       is_query |-> BitOf(b2, 0) = 1,
                       opcode |-> opcode.val,
                       authoritative_answer |-> BitOf(b2, 5) = 1,
                       truncation |-> BitOf(b2, 6) = 1,
                       recursion_desired |-> BitOf(b2, 7) = 1,
                       recursion_available |-> BitOf(b3, 0) = 1,
                       resp_code |-> rcode.val,
                       question_count |-> be_u16(buf, Slice(i.lo + 4, i.hi)).val,
                       answer_count |-> be_u16(buf, Slice(i.lo + 6, i.hi)).val,
                       name_server_count |-> be_u16(buf, Slice(i.lo + 8, i.hi)).val,
                       additional_records_count |->
                           be_u16(buf, Slice(i.lo + 10, i.hi)).val])

-----------------------------------------------------------------------------
(* src/src/message/question.rs: Entry::deserialize *)

Entry_deserialize(buf, i) ==
    Let(parse_labels_then_zero(buf, i), LAMBDA labels :
    IF labels.kind # "ok" THEN labels
    ELSE Let(be_u16_record_type(buf, labels.rest), LAMBDA record_type :
    IF record_type.kind # "ok" THEN record_type
    ELSE Let(be_u16_class(buf, record_type.rest), LAMBDA record_qclass :
    IF record_qclass.kind # "ok" THEN record_qclass
    ELSE Ok(record_qclass.rest,
            [labels |-> labels.val,
             record_type |-> record_type.val,
             record_qclass |-> record_qclass.val]))))

-----------------------------------------------------------------------------
(* src/src/message.rs: MsgParser::parse_rdata, parse_record *)

\* An isize of the target: neg is its sign, w its bit pattern as four 16-bit
\* limbs, most significant first (the pattern is only compared when ~neg).
\* `v as isize` of a u32 v: zero-extended on a 64-bit target, reinterpreted as
\* a signed 32-bit number on a 32-bit target.
as_isize(v, bits) ==
    [neg |-> bits = 32 /\ v.hi >= 32768, w |-> <<0, 0, v.hi, v.lo>>]

GtLimbs(a, b) ==
    \E k \in 1..4 : a[k] > b[k] /\ \A j \in 1..(k - 1) : a[j] = b[j]

\* x > y for an isize x and a non-negative isize y given by its limbs
IsizeGt(x, y) == ~x.neg /\ GtLimbs(x.w, y)

\* i32::MAX as an isize
i32_MAX == <<0, 0, 32767, 65535>>

\* isize::MAX of the target
isize_MAX(bits) ==
    IF bits = 64 THEN <<32767, 65535, 65535, 65535>> ELSE i32_MAX

\* The closure of parse_rdata(record_type), applied to the slice i.  The
\* match has arms for A, Cname and Soa only; a record of another type gets
\* no parser, which the model reports as a decode error.
parse_rdata(buf, record_type, i) ==
    CASE record_type = "A" ->
           IF SliceLen(i) < 4 THEN Fail("err", "Eof")
           ELSE Ok(Slice(i.lo + 4, i.hi),
                   [tag |-> "A", addr |-> Bytes(buf, i.lo, i.lo + 4)])
      [] record_type = "Cname" ->
           Let(parse_name(buf, i, 0), LAMBDA n :
           IF n.kind # "ok" THEN Fail(n.kind, n.why)
           ELSE Ok(n.rest, [tag |-> "Cname", name |-> n.val]))
      [] record_type = "Soa" ->
           Let(parse_name(buf, i, 0), LAMBDA mname :
           IF mname.kind # "ok" THEN Fail(mname.kind, mname.why)
           ELSE Let(parse_name(buf, mname.rest, 0), LAMBDA rname :
           IF rname.kind # "ok" THEN Fail(rname.kind, rname.why)
           ELSE Let(be_u32(buf, rname.rest), LAMBDA serial :
           IF serial.kind # "ok" THEN serial
           ELSE Let(be_u32(buf, serial.rest), LAMBDA refresh :
           IF refresh.kind # "ok" THEN refresh
           ELSE Let(be_u32(buf, refresh.rest), LAMBDA retry :
           IF retry.kind # "ok" THEN retry
           ELSE Let(be_u32(buf, retry.rest), LAMBDA expire :
           IF expire.kind # "ok" THEN expire
           ELSE Ok(expire.rest,
                   [tag |-> "Soa", mname |-> mname.val, rname |-> rname.val,
                    serial |-> serial.val, refresh |-> refresh.val,
                    retry |-> retry.val, expire |-> expire.val])))))))
      [] OTHER -> Fail("err", "NoMatchArm")

\* nom::multi::length_value(be_u16, self.parse_rdata(record_type)): the
\* parser runs on the next `length` bytes; what it leaves of them is dropped.
\* ghost: val.rdlength is the declared length, val.consumed what the parser
\* read of it.
length_value_rdata(buf, record_type, i) ==
    Let(be_u16(buf, i), LAMBDA length :
    IF length.kind # "ok" THEN length
    ELSE IF length.val > SliceLen(length.rest) THEN Fail("err", "Incomplete")
    ELSE Let(Slice(length.rest.lo, length.rest.lo + length.val), LAMBDA sub :
         Let(parse_rdata(buf, record_type, sub), LAMBDA o :
         CASE o.kind = "ok" ->
                Ok(Slice(sub.hi, i.hi),
                   [data |-> o.val, rdlength |-> length.val,
                    consumed |-> o.rest.lo - sub.lo])
           [] o.kind = "err" /\ o.why = "Incomplete" -> Fail("err", "Complete")
           [] OTHER -> o)))

\* The TTL check of parse_record:
\*   let max_ttl: isize = i32::MAX.try_into().unwrap();
\*   if (ttl as isize) > max_ttl { Err(..) } else { Ok(ttl) }
parse_record_ttl_ok(ttl, bits) == ~IsizeGt(as_isize(ttl, bits), i32_MAX)

parse_record(buf, i, bits) ==
    Let(parse_name(buf, i, 0), LAMBDA name :
    IF name.kind # "ok" THEN Fail(name.kind, name.why)
    ELSE Let(be_u16_record_type(buf, name.rest), LAMBDA record_type :
    IF record_type.kind # "ok" THEN record_type
    ELSE Let(be_u16_class(buf, record_type.rest), LAMBDA class :
    IF class.kind # "ok" THEN class
    ELSE Let(be_u32(buf, class.rest), LAMBDA ttl :
    IF ttl.kind # "ok" THEN ttl
    ELSE IF ~parse_record_ttl_ok(ttl.val, bits) THEN Fail("err", "MapRes")
    ELSE Let(length_value_rdata(buf, record_type.val, ttl.rest), LAMBDA d :
    IF d.kind # "ok" THEN d
    ELSE Ok(d.rest,
            [name |-> name.val, class |-> class.val, ttl |-> ttl.val,
             data |-> d.val.data,
             rdlength |-> d.val.rdlength, consumed |-> d.val.consumed]))))))

-----------------------------------------------------------------------------
(* src/src/message.rs: MsgParser::parse_message, Message::deserialize *)

\* The parser nom::multi::count repeats: question::Entry::deserialize or
\* |i| self.parse_record(i)
Item(buf, which, i, bits) ==
    IF which = "question" THEN Entry_deserialize(buf, i)
    ELSE parse_record(buf, i, bits)

\* ghost: trace lists the outcome of every sub-decode that was run
Parsed(kind, rest, val, why, trace) ==
    [kind |-> kind, rest |-> rest, val |-> val, why |-> why, trace |-> trace]

\* A count that keeps the items decoded before a failure and reports success:
\* the partial result that parse_message must never return.
RECURSIVE count_lenient(_, _, _, _, _)
count_lenient(buf, which, n, i, bits) ==
    IF n = 0 THEN Parsed("ok", i, <<>>, "none", <<>>)
    ELSE Let(Item(buf, which, i, bits), LAMBDA o :
         IF o.kind # "ok" THEN Parsed("ok", i, <<>>, "none", <<o.kind>>)
         ELSE Let(count_lenient(buf, which, n - 1, o.rest, bits), LAMBDA t :
              Parsed("ok", t.rest, <<o.val>> \o t.val, "none",
                     <<"ok">> \o t.trace)))

\* A count that stops one item short of n.
RECURSIVE count_one_short(_, _, _, _, _)
count_one_short(buf, which, n, i, bits) ==
    IF n <= 1 THEN Parsed("ok", i, <<>>, "none", <<>>)
    ELSE Let(Item(buf, which, i, bits), LAMBDA o :
         IF o.kind # "ok" THEN Parsed(o.kind, NoSlice, <<>>, o.why, <<o.kind>>)
         ELSE Let(count_one_short(buf, which, n - 1, o.rest, bits), LAMBDA t :
              IF t.kind # "ok"
              THEN Parsed(t.kind, NoSlice, <<>>, t.why, <<"ok">> \o t.trace)
              ELSE Parsed("ok", t.rest, <<o.val>> \o t.val, "none",
                          <<"ok">> \o t.trace)))

\* nom::multi::count(parser, n): n items, or the first failure
RECURSIVE count(_, _, _, _, _)
count(buf, which, n, i, bits) ==
    IF n = 0 THEN Parsed("ok", i, <<>>, "none", <<>>)
    ELSE Let(Item(buf, which, i, bits), LAMBDA o :
         IF o.kind # "ok" THEN Parsed(o.kind, NoSlice, <<>>, o.why, <<o.kind>>)
         ELSE Let(count(buf, which, n - 1, o.rest, bits), LAMBDA t :
              IF t.kind # "ok"
              THEN Parsed(t.kind, NoSlice, <<>>, t.why, <<"ok">> \o t.trace)
              ELSE Parsed("ok", t.rest, <<o.val>> \o t.val, "none",
                          <<"ok">> \o t.trace)))

\* A parse_message that reads the authority records before the answer
\* records: the first name_server_count records go to the authority list.
parse_message_authority_first(buf, i, bits) ==
    Let(Header_deserialize(buf, i), LAMBDA header :
    IF header.kind # "ok"
    THEN Parsed(header.kind, NoSlice, <<>>, header.why, <<header.kind>>)
    ELSE Let(count(buf, "question", header.val.question_count,
                   header.rest, bits), LAMBDA question :
    IF question.kind # "ok"
    THEN Parsed(question.kind, NoSlice, <<>>, question.why,
                <<"ok">> \o question.trace)
    ELSE Let(count(buf, "record", header.val.name_server_count,
                   question.rest, bits), LAMBDA answer :
    IF answer.kind # "ok"
    THEN Parsed(answer.kind, NoSlice, <<>>, answer.why,
                <<"ok">> \o question.trace \o answer.trace)
    ELSE Let(count(buf, "record", header.val.answer_count,
                   answer.rest, bits), LAMBDA authority :
    IF authority.kind # "ok"
    THEN Parsed(authority.kind, NoSlice, <<>>, authority.why,
                <<"ok">> \o question.trace \o answer.trace \o authority.trace)
    ELSE Let(count(buf, "record", header.val.additional_records_count,
                   authority.rest, bits), LAMBDA additional :
    IF additional.kind # "ok"
    THEN Parsed(additional.kind, NoSlice, <<>>, additional.why,
                <<"ok">> \o question.trace \o answer.trace
                \o authority.trace \o additional.trace)
    ELSE Parsed("ok", additional.rest,
                [header |-> header.val, question |-> question.val,
                 answer |-> authority.val, authority |-> answer.val,
                 additional |-> additional.val],
                "none",
                <<"ok">> \o question.trace \o answer.trace
                \o authority.trace \o additional.trace))))))

parse_message(buf, i, bits) ==
    Let(Header_deserialize(buf, i), LAMBDA header :
    IF header.kind # "ok"
    THEN Parsed(header.kind, NoSlice, <<>>, header.why, <<header.kind>>)
    ELSE Let(count(buf, "question", header.val.question_count,
                   header.rest, bits), LAMBDA question :
    IF question.kind # "ok"
    THEN Parsed(question.kind, NoSlice, <<>>, question.why,
                <<"ok">> \o question.trace)
    ELSE Let(count(buf, "record", header.val.answer_count,
                   question.rest, bits), LAMBDA answer :
    IF answer.kind # "ok"
    THEN Parsed(answer.kind, NoSlice, <<>>, answer.why,
                <<"ok">> \o question.trace \o answer.trace)
    ELSE Let(count(buf, "record", header.val.name_server_count,
                   answer.rest, bits), LAMBDA authority :
    IF authority.kind # "ok"
    THEN Parsed(authority.kind, NoSlice, <<>>, authority.why,
                <<"ok">> \o question.trace \o answer.trace \o authority.trace)
    ELSE Let(count(buf, "record", header.val.additional_records_count,
                   authority.rest, bits), LAMBDA additional :
    IF additional.kind # "ok"
    THEN Parsed(additional.kind, NoSlice, <<>>, additional.why,
                <<"ok">> \o question.trace \o answer.trace
                \o authority.trace \o additional.trace)
    ELSE Parsed("ok", additional.rest,
                [header |-> header.val, question |-> question.val,
                 answer |-> answer.val, authority |-> authority.val,
                 additional |-> additional.val],
                "none",
                <<"ok">> \o question.trace \o answer.trace
                \o authority.trace \o additional.trace))))))

\* Message::deserialize: mp.parse_message(slice).unwrap().1
Message_deserialize(buf, bits) ==
    Let(parse_message(buf, Slice(0, Len(buf)), bits), LAMBDA r :
    CASE r.kind = "ok" -> Parsed("ok", NoSlice, r.val, "none", r.trace)
      [] r.kind = "err" -> Parsed("panic", NoSlice, <<>>, "unwrap", r.trace)
      [] OTHER -> Parsed(r.kind, NoSlice, <<>>, r.why, r.trace))

-----------------------------------------------------------------------------
(* src/src/util.rs, src/src/parse.rs (parse_domain), src/src/message/record.rs *)

\* join_asciis: the strings joined by "."
RECURSIVE join_asciis(_)
join_asciis(asciis) ==
    IF Len(asciis) = 0 THEN <<>>
    ELSE IF Len(asciis) = 1 THEN asciis[1]
    ELSE asciis[1] \o <<Dot>> \o join_asciis(Tail(asciis))

\* format!("{n}") of a number below 100
Decimal(n) ==
    IF n < 10 THEN <<48 + n>> ELSE <<48 + (n \div 10), 48 + (n % 10)>>

\* parse_pointer: two 1 bits, then six bits of offset; the name is the
\* placeholder "name at {offset}" and one byte is consumed.
parse_pointer(buf, i) ==
    IF SliceLen(i) < 1 THEN Fail("err", "Eof")
    ELSE IF Field(At(buf, i.lo), 0, 2) # 3 THEN Fail("err", "MapRes")
    ELSE Ok(Slice(i.lo + 1, i.hi),
            <<(<<110, 97, 109, 101, 32, 97, 116, 32>>
               \o Decimal(Field(At(buf, i.lo), 2, 6)))>>)

\* many1(nom::bits::bytes(parse_label)): labels until one fails, at least one
RECURSIVE many_labels(_, _)
many_labels(buf, i) ==
    Let(parse_label(buf, i), LAMBDA l :
    IF l.kind # "ok" THEN
        IF l.why = "Incomplete" THEN l ELSE Ok(i, <<>>)
    ELSE Let(many_labels(buf, l.rest), LAMBDA t :
         IF t.kind # "ok" THEN t ELSE Ok(t.rest, <<l.val>> \o t.val)))

parse_labels_then_pointer(buf, i) ==
    Let(many_labels(buf, i), LAMBDA names0 :
    IF names0.kind # "ok" THEN names0
    ELSE IF Len(names0.val) = 0 THEN Fail("err", "Many1")
    ELSE Let(parse_pointer(buf, names0.rest), LAMBDA names1 :
         IF names1.kind # "ok" THEN names1
         ELSE Ok(names1.rest, names0.val \o names1.val)))

\* parse_domain: alt of the three ways; alt moves on only from an Err::Error
parse_domain(buf, i) ==
    Let(parse_labels_then_zero(buf, i), LAMBDA a :
    IF a.kind = "ok" \/ a.why = "Incomplete" THEN a
    ELSE Let(parse_pointer(buf, i), LAMBDA b :
         IF b.kind = "ok" THEN b
         ELSE parse_labels_then_pointer(buf, i)))

\* const MAX_TTL: isize = isize::MAX;
MAX_TTL(bits) == isize_MAX(bits)

\* if (ttl as isize) > MAX_TTL { Err(..) } else { Ok(ttl) }
Record_ttl_ok(ttl, bits) == ~IsizeGt(as_isize(ttl, bits), MAX_TTL(bits))

\* Record::deserialize, started on a byte boundary.  It reads no RDLENGTH:
\* the four bytes after the TTL are the address of an A record, and its
\* match has no arm for another type.
Record_deserialize(buf, i, bits) ==
    Let(parse_domain(buf, i), LAMBDA name :
    IF name.kind # "ok" THEN name
    ELSE Let(be_u16_record_type(buf, name.rest), LAMBDA record_type :
    IF record_type.kind # "ok" THEN record_type
    ELSE Let(be_u16_class(buf, record_type.rest), LAMBDA class :
    IF class.kind # "ok" THEN class
    ELSE Let(be_u32(buf, class.rest), LAMBDA ttl :
    IF ttl.kind # "ok" THEN ttl
    ELSE IF ~Record_ttl_ok(ttl.val, bits) THEN Fail("err", "MapRes")
    ELSE IF record_type.val # "A" THEN Fail("err", "NoMatchArm")
    ELSE IF SliceLen(ttl.rest) < 4 THEN Fail("err", "Eof")
    ELSE Ok(Slice(ttl.rest.lo + 4, i.hi),
            [name |-> join_asciis(name.val), class |-> class.val,
             ttl |-> ttl.val,
             data |-> [tag |-> "A",
                       addr |-> Bytes(buf, ttl.rest.lo, ttl.rest.lo + 4)]])))))

-----------------------------------------------------------------------------
(* Encoding: Header::new_query, Header::serialize, Entry::serialize,        *)
(* Message::new_query, Message::serialize_bytes.  A BitVec<_, Msb0> is the  *)
(* sequence of its bits.                                                    *)

\* v.view_bits::<Msb0>() of an n-bit unsigned v
view_bits(v, n) == [j \in 1..n |-> (v \div (2 ^ (n - j))) % 2]

Bit(b) == IF b THEN 1 ELSE 0

\* bv.as_bitslice().read_to_end(&mut bytes): the whole bytes of the bits
read_to_end(bv) ==
    [k \in 1..(Len(bv) \div 8) |->
        bv[8 * k - 7] * 128 + bv[8 * k - 6] * 64 + bv[8 * k - 5] * 32
        + bv[8 * k - 4] * 16 + bv[8 * k - 3] * 8 + bv[8 * k - 2] * 4
        + bv[8 * k - 1] * 2 + bv[8 * k]]

\* A Header::new_query that leaves recursion_desired unset.
Header_new_query_no_rd(id) ==
    [id |-> id,
     is_query |-> FALSE,
     opcode |-> "Query",
     authoritative_answer |-> FALSE,
     truncation |-> FALSE,
     recursion_desired |-> FALSE,
     recursion_available |-> FALSE,
     resp_code |-> "NoError",
     question_count |-> 1,
     answer_count |-> 0,
     name_server_count |-> 0,
     additional_records_count |-> 0]

\* Header::new_query
Header_new_query(id) ==
    [id |-> id,
     is_query |-> FALSE,
     opcode |-> "Query",
     authoritative_answer |-> FALSE,
     truncation |-> FALSE,
     recursion_desired |-> TRUE,
     recursion_available |-> FALSE,
     resp_code |-> "NoError",
     question_count |-> 1,
     answer_count |-> 0,
     name_server_count |-> 0,
     additional_records_count |-> 0]

\* Opcode::serialize
Opcode_bits(op) ==
    CASE op = "Query" -> <<0, 0, 0, 0>>
      [] op = "InverseQuery" -> <<0, 0, 0, 1>>
      [] op = "Status" -> <<0, 0, 1, 0>>

\* ResponseCode::serialize
ResponseCode_bits(rc) ==
    CASE rc = "NoError" -> <<0, 0, 0, 0>>
      [] rc = "FormatError" -> <<0, 0, 0, 1>>
      [] rc = "ServerFailure" -> <<0, 0, 1, 0>>
      [] rc = "NameError" -> <<0, 0, 1, 1>>
      [] rc = "NotImplemented" -> <<0, 1, 0, 0>>
      [] rc = "Refused" -> <<0, 1, 0, 1>>

\* A Header::serialize that writes recursion_available before
\* recursion_desired.
Header_serialize_ra_first(h) ==
    view_bits(h.id, 16)
    \o <<Bit(h.is_query)>>
    \o Opcode_bits(h.opcode)
    \o <<Bit(h.authoritative_answer)>>
    \o <<Bit(h.truncation)>>
    \o <<Bit(h.recursion_available)>>
    \o <<Bit(h.recursion_desired)>>
    \o <<0, 0, 0>>
    \o ResponseCode_bits(h.resp_code)
    \o view_bits(h.question_count, 16)
    \o view_bits(h.answer_count, 16)
    \o view_bits(h.name_server_count, 16)
    \o view_bits(h.additional_records_count, 16)

\* Header::serialize: the bits appended to bv
Header_serialize(h) ==
    view_bits(h.id, 16)
    \o <<Bit(h.is_query)>>
    \o Opcode_bits(h.opcode)
    \o <<Bit(h.authoritative_answer)>>
    \o <<Bit(h.truncation)>>
    \o <<Bit(h.recursion_desired)>>
    \o <<Bit(h.recursion_available)>>
    \o <<0, 0, 0>>
    \o ResponseCode_bits(h.resp_code)
    \o view_bits(h.question_count, 16)
    \o view_bits(h.answer_count, 16)
    \o view_bits(h.name_server_count, 16)
    \o view_bits(h.additional_records_count, 16)

\* the bits of a byte string, byte by byte
bytes_bits(bs) ==
    [j \in 1..(8 * Len(bs)) |->
        (bs[((j - 1) \div 8) + 1] \div (2 ^ (7 - ((j - 1) % 8)))) % 2]

\* Entry::serialize_qname: for each label its length byte and its bytes; a
\* label of 64 bytes or more is an error.  Nothing else is written.
RECURSIVE serialize_qname(_)
serialize_qname(labels) ==
    IF Len(labels) = 0 THEN TryOk(<<>>)
    ELSE IF Len(labels[1]) > 255 \/ Len(labels[1]) >= 64
         THEN TryErr("label too long")
    ELSE Let(serialize_qname(Tail(labels)), LAMBDA t :
         IF ~t.ok THEN t
         ELSE TryOk(view_bits(Len(labels[1]), 8) \o bytes_bits(labels[1])
                    \o t.val))

\* Entry::serialize
Entry_serialize(e) ==
    Let(serialize_qname(e.labels), LAMBDA q :
    IF ~q.ok THEN q
    ELSE TryOk(q.val \o view_bits(RecordType_num(e.record_type), 16)
               \o view_bits(Class_num(e.record_qclass), 16)))

\* Entry::new
Entry_new(labels, record_type) ==
    [labels |-> labels, record_type |-> record_type, record_qclass |-> "IN"]

\* dn.split(Dot): the pieces between the dots, empty ones included
RECURSIVE split(_)
split(dn) ==
    IF \A k \in 1..Len(dn) : dn[k] # Dot THEN <<dn>>
    ELSE Let(CHOOSE k \in 1..Len(dn) :
                 dn[k] = Dot /\ \A j \in 1..(k - 1) : dn[j] # Dot,
             LAMBDA k :
             <<SubSeq(dn, 1, k - 1)>> \o split(SubSeq(dn, k + 1, Len(dn))))

\* A new_query whose label check is off by one: a 64-byte label passes.
new_query_label_64(id, domain_name, record_type) ==
    IF Len(domain_name) > MAX_NAME_BYTES THEN TryErr("name too long")
    ELSE IF ~IsAscii(domain_name) THEN TryErr("not ascii")
    ELSE Let(split(domain_name), LAMBDA labels :
         IF \E k \in 1..Len(labels) : Len(labels[k]) > MAX_LABEL_BYTES + 1
         THEN TryErr("label too long")
         ELSE TryOk([header |-> Header_new_query(id),
                     question |-> <<[labels |-> labels,
                                     record_type |-> record_type,
                                     record_qclass |-> "IN"]>>,
                     answer |-> <<>>,
                     authority |-> <<>>,
                     additional |-> <<>>]))

\* Message::new_query
new_query(id, domain_name, record_type) ==
    IF Len(domain_name) > MAX_NAME_BYTES THEN TryErr("name too long")
    ELSE IF ~IsAscii(domain_name) THEN TryErr("not ascii")
    ELSE Let(split(domain_name), LAMBDA labels :
         IF \E k \in 1..Len(labels) : Len(labels[k]) > MAX_LABEL_BYTES
         THEN TryErr("label too long")
         ELSE TryOk([header |-> Header_new_query(id),
                     question |-> <<[labels |-> labels,
                                     record_type |-> record_type,
                                     record_qclass |-> "IN"]>>,
                     answer |-> <<>>,
                     authority |-> <<>>,
                     additional |-> <<>>]))

\* Message::serialize_bits: the header, then every question
RECURSIVE serialize_questions(_)
serialize_questions(qs) ==
    IF Len(qs) = 0 THEN TryOk(<<>>)
    ELSE Let(Entry_serialize(qs[1]), LAMBDA q :
         IF ~q.ok THEN q
         ELSE Let(serialize_questions(Tail(qs)), LAMBDA t :
              IF ~t.ok THEN t ELSE TryOk(q.val \o t.val)))

\* Message::serialize_bytes
serialize_bytes(m) ==
    Let(serialize_questions(m.question), LAMBDA qs :
    IF ~qs.ok THEN qs
    ELSE TryOk(read_to_end(Header_serialize(m.header) \o qs.val)))

-----------------------------------------------------------------------------
(* Message buffers: builders for the inputs of the decode specifications *)

\* The 12 header bytes with flag bytes b2, b3 and the four counts (each < 256)
HeaderBytes(id, b2, b3, qd, an, ns, ar) ==
    <<id \div 256, id % 256, b2, b3, 0, qd, 0, an, 0, ns, 0, ar>>

\* The question "a." A IN, which a message holds at offset 12
QuestionBytes == <<1, 97, 0, 0, 1, 0, 1>>

\* A record's owner name, written at offset off:
\*   back      a pointer to the question name at offset 12
\*   self      a pointer to itself
\*   fwd       a pointer to the byte after it (the zero high byte of TYPE,
\*             which reads as the root name)
\*   lit       the label "b", then a pointer to offset 12
\*   plain     the label "b" and the zero label, no pointer
\*   oob       a pointer past the end of every buffer of the model
\*   reserved  a length byte of the reserved range 64..191
NameKinds == {"back", "self", "fwd", "lit", "plain", "oob", "reserved"}

NameBytes(kind, off) ==
    CASE kind = "back" -> <<192, 12>>
      [] kind = "self" -> <<192, off>>
      [] kind = "fwd" -> <<192, off + 2>>
      [] kind = "lit" -> <<1, 98, 192, 12>>
      [] kind = "plain" -> <<1, 98, 0>>
      [] kind = "oob" -> <<192, 250>>
      [] kind = "reserved" -> <<64>>

\* TYPE, then RDLENGTH and RDATA:
\*   A4 an A record; A6, A3 an A record with RDLENGTH 6, 3; Cname a pointer
\*   to offset 12; Soa two pointers and four u32; SoaMin the same with the
\*   fifth u32 (MINIMUM) of RFC 1035; T99 an unknown type; Aaaa an AAAA
\*   record of 16 bytes; Ns an NS record, a pointer to offset 12
DataKinds == {"A4", "A6", "A3", "Cname", "Soa", "SoaMin", "T99", "Aaaa", "Ns"}

TypeOf(kind) ==
    CASE kind \in {"A4", "A6", "A3"} -> 1
      [] kind = "Cname" -> 5
      [] kind \in {"Soa", "SoaMin"} -> 6
      [] kind = "T99" -> 99
      [] kind = "Aaaa" -> 28
      [] kind = "Ns" -> 2

SoaFixed == <<192, 12, 192, 12, 0, 0, 0, 7, 0, 0, 168, 192, 0, 0, 2, 88, 0, 9, 58, 128>>

RDataOf(kind) ==
    CASE kind = "A4" -> <<104, 19, 237, 120>>
      [] kind = "A6" -> <<104, 19, 237, 120, 1, 2>>
      [] kind = "A3" -> <<104, 19, 237>>
      [] kind = "Cname" -> <<192, 12>>
      [] kind = "Soa" -> SoaFixed
      [] kind = "SoaMin" -> SoaFixed \o <<0, 0, 1, 44>>
      [] kind = "T99" -> <<1, 2, 3, 4>>
      [] kind = "Aaaa" -> <<38, 6, 71, 0, 0, 0, 0, 0, 0, 0, 0, 0, 104, 19, 237, 120>>
      [] kind = "Ns" -> <<192, 12>>

\* TTL 179, 2^31 - 1, 2^31 and 2^32 - 1
TtlSet == {<<0, 0, 0, 179>>, <<127, 255, 255, 255>>, <<128, 0, 0, 0>>,
           <<255, 255, 255, 255>>}

RecordBytes(t, off) ==
    NameBytes(t.name, off)
    \o <<0, TypeOf(t.data), 0, t.class>>
    \o t.ttl
    \o <<0, Len(RDataOf(t.data))>> \o RDataOf(t.data)

Template(name, data, class, ttl) ==
    [name |-> name, data |-> data, class |-> class, ttl |-> ttl]

PlainRecord == Template("back", "A4", 1, <<0, 0, 0, 179>>)

\* every owner name, RDATA and TTL, and one record of class CH
Templates ==
    { Template(n, d, 1, t) : n \in NameKinds, d \in DataKinds, t \in TtlSet }
    \cup { Template("back", "A4", 3, <<0, 0, 0, 179>>) }

\* the records a message of several records is made of
FewTemplates ==
    { PlainRecord,
      Template("lit", "Cname", 1, <<0, 0, 0, 179>>),
      Template("back", "T99", 1, <<0, 0, 0, 179>>),
      Template("self", "A4", 1, <<0, 0, 0, 179>>) }

\* the records ts written one after the other, the first at offset off
RECURSIVE RecordsBytes(_, _)
RecordsBytes(ts, off) ==
    IF Len(ts) = 0 THEN <<>>
    ELSE LET r == RecordBytes(Head(ts), off) IN
         r \o RecordsBytes(Tail(ts), off + Len(r))

\* header, nq questions, the records ts
MessageBytes(b2, b3, qd, an, ns, ar, nq, ts) ==
    LET qs == IF nq = 0 THEN <<>> ELSE QuestionBytes IN
    HeaderBytes(33, b2, b3, qd, an, ns, ar) \o qs
    \o RecordsBytes(ts, EXPECTED_SIZE_BYTES + Len(qs))

Prefixes(m) == { SubSeq(m, 1, k) : k \in 0..Len(m) }

\* the response of test_parse_msg (src/src/message.rs)
TestParseMsg ==
    <<0, 33, 129, 128, 0, 1, 0, 2, 0, 0, 0, 0,
      4, 98, 108, 111, 103,
      12, 97, 100, 97, 109, 99, 104, 97, 108, 109, 101, 114, 115,
      3, 99, 111, 109, 0,
      0, 1, 0, 1,
      192, 12, 0, 1, 0, 1, 0, 0, 0, 179, 0, 4, 104, 19, 237, 120,
      192, 12, 0, 1, 0, 1, 0, 0, 0, 179, 0, 4, 104, 19, 238, 120>>

\* the response of test_msg_with_soa_records (src/src/message.rs)
TestSoaMsg ==
    <<190, 125, 129, 128, 0, 1, 0, 0, 0, 1, 0, 0,
      11, 115, 101, 114, 105, 111, 117, 115, 101, 97, 116, 115, 3, 99, 111, 109, 0,
      0, 5, 0, 1,
      192, 12, 0, 6, 0, 1, 0, 0, 1, 44, 0, 53,
      4, 100, 110, 115, 49, 3, 112, 48, 51, 5, 110, 115, 111, 110, 101, 3, 110, 101, 116, 0,
      10, 104, 111, 115, 116, 109, 97, 115, 116, 101, 114, 192, 54,
      97, 247, 178, 208, 0, 0, 168, 192, 0, 0, 2, 88, 0, 9, 58, 128, 0, 0, 1, 44>>

\* Most records in a generated message of several records.
MaxRecords == 2

\* flag bytes: a NoError response; ServerFailure; opcode 3; a Z bit set;
\* response code 6
FlagBytes == {<<129, 128>>, <<129, 130>>, <<153, 128>>, <<129, 192>>, <<129, 134>>}

\* the counts of the header against what the message holds
CountMessages ==
    { MessageBytes(129, 128, qd, an, ns, ar, nq, ts) :
        qd \in 0..2, an \in 0..MaxRecords, ns \in 0..1, ar \in 0..1,
        nq \in 0..1,
        ts \in UNION { [1..n -> FewTemplates] : n \in 0..MaxRecords } }

\* one question and one record of every kind, in each of the three sections
RecordMessages ==
    { MessageBytes(129, 128, 1, c[1], c[2], c[3], 1, <<t>>) :
        c \in {<<1, 0, 0>>, <<0, 1, 0>>, <<0, 0, 1>>}, t \in Templates }

\* every flag variant, cut at every length
HeaderMessages ==
    UNION { Prefixes(MessageBytes(f[1], f[2], 1, 1, 0, 0, 1, <<PlainRecord>>)) :
              f \in FlagBytes }

\* a query-shaped message whose one question has TYPE 99
UnknownTypeQuestion ==
    HeaderBytes(33, 129, 128, 1, 0, 0, 0) \o <<1, 97, 0, 0, 99, 0, 1>>

\* one question and one record of TYPE 99, in each of the three sections
UnknownTypeRecords ==
    { MessageBytes(129, 128, 1, c[1], c[2], c[3], 1,
                   <<Template(n, "T99", 1, <<0, 0, 0, 179>>)>>) :
        c \in {<<1, 0, 0>>, <<0, 1, 0>>, <<0, 0, 1>>},
        n \in {"back", "lit", "plain"} }

Messages ==
    CountMessages \cup RecordMessages \cup HeaderMessages
    \cup Prefixes(TestParseMsg) \cup {TestSoaMsg}
    \cup {UnknownTypeQuestion}

-----------------------------------------------------------------------------
(* Message::deserialize applied to every buffer of Messages *)

Init ==
    /\ pc = "call"
    /\ input \in Messages
    /\ start = 0
    /\ isize_bits \in {32, 64}
    /\ ret = <<>>
    /\ query = <<>>
    /\ msg = <<>>
    /\ body = <<>>
    /\ io = NoIO

\* Message::deserialize(input)
Deserialize ==
    /\ pc = "call"
    /\ ret' = Message_deserialize(input, isize_bits)
    /\ pc' = "deserialize"
    /\ UNCHANGED <<input, start, isize_bits, query, msg, body, io>>

Next == Deserialize

Spec == Init /\ [][Next]_vars

-----------------------------------------------------------------------------
(* Header decode applied to every flag combination *)

\* the 12-byte headers with every value of the two flag bytes, and the
\* cut headers of HeaderMessages
HeaderInputs ==
    { HeaderBytes(33, b2, b3, 1, 0, 0, 0) :
        b2 \in {8 * op + 1 : op \in 0..15} \cup {129, 133}, b3 \in 0..255 }
    \cup { m \in HeaderMessages : Len(m) <= EXPECTED_SIZE_BYTES }

InitHeader ==
    /\ pc = "call"
    /\ input \in HeaderInputs
    /\ start = 0
    /\ isize_bits = 64
    /\ ret = <<>>
    /\ query = <<>>
    /\ msg = <<>>
    /\ body = <<>>
    /\ io = NoIO

\* nom::bits::bits(Header::deserialize)(input)
DeserializeHeader ==
    /\ pc = "call"
    /\ ret' = Header_deserialize(input, Slice(0, Len(input)))
    /\ pc' = "header"
    /\ UNCHANGED <<input, start, isize_bits, query, msg, body, io>>

NextHeader == DeserializeHeader

SpecHeader == InitHeader /\ [][NextHeader]_vars

-----------------------------------------------------------------------------
(* Record decode applied to the record of every message of RecordMessages *)

\* where the record of such a message starts: after header and question
RecordStart == EXPECTED_SIZE_BYTES + Len(QuestionBytes)

InitRecord ==
    /\ pc = "call"
    /\ input \in RecordMessages
    /\ start = RecordStart
    /\ isize_bits \in {32, 64}
    /\ ret = <<>>
    /\ query = <<>>
    /\ msg = <<>>
    /\ body = <<>>
    /\ io = NoIO

\* self.parse_record(&self.input[start..])
ParseRecord ==
    /\ pc = "call"
    /\ ret' = parse_record(input, Slice(start, Len(input)), isize_bits)
    /\ pc' = "parse_record"
    /\ UNCHANGED <<input, start, isize_bits, query, msg, body, io>>

\* Record::deserialize((&input[start..], 0))
RecordDeserialize ==
    /\ pc = "call"
    /\ ret' = Record_deserialize(input, Slice(start, Len(input)), isize_bits)
    /\ pc' = "Record::deserialize"
    /\ UNCHANGED <<input, start, isize_bits, query, msg, body, io>>

NextRecord == ParseRecord \/ RecordDeserialize

SpecRecord == InitRecord /\ [][NextRecord]_vars

-----------------------------------------------------------------------------
(* Name decoding applied to every buffer of a bounded set, at every offset *)

\* Longest buffer of the exhaustive family below.
MaxBufLen == 4

\* zero label, label lengths 1 and 2, a reserved length, a letter, and the
\* pointer header byte
NameAlphabet == {0, 1, 2, 64, 97, 192}

SmallBuffers ==
    UNION { [1..n -> NameAlphabet] : n \in 1..MaxBufLen }

\* "a." at offset 0, then k pointers, each at offset 3 + 2(j-1) and aimed at
\* the one before it (the first at offset 0): a chain of k backward pointers.
RECURSIVE Chain(_)
Chain(k) ==
    IF k = 0 THEN <<1, 97, 0>>
    ELSE Chain(k - 1) \o <<POINTER_HEADER, IF k = 1 THEN 0 ELSE 3 + 2 * (k - 2)>>

NameBuffers ==
    SmallBuffers
    \cup { Chain(k) : k \in 1..MaxChain }
    \cup { <<1, 97, 0, 1, 98, 192, 0>>,      \* b. then a pointer to a.
           <<192, 2, 1, 97, 0>>,             \* a forward pointer to a.
           <<1, 200, 0>>,                    \* a label that is not ASCII
           <<192, 9>>,                       \* a pointer past the end
           TestParseMsg }

InitName ==
    /\ pc = "call"
    /\ input \in NameBuffers
    /\ start = 0
    /\ isize_bits = 64
    /\ ret = <<>>
    /\ query = <<>>
    /\ msg = <<>>
    /\ body = <<>>
    /\ io = NoIO

\* self.parse_name(&self.input[off..])
ParseName ==
    /\ pc = "call"
    /\ \E off \in 0..Len(input) :
          /\ start' = off
          /\ ret' = parse_name(input, Slice(off, Len(input)), 0)
    /\ pc' = "parse_name"
    /\ UNCHANGED <<input, isize_bits, query, msg, body, io>>

NextName == ParseName

SpecName == InitName /\ [][NextName]_vars

-----------------------------------------------------------------------------
(* Building a query, serializing it and decoding the bytes again *)

\* the label of n bytes at position k of a name: n times the k-th letter
LabelOf(n, k) == [j \in 1..n |-> 96 + k]

\* the name whose labels have the lengths lens, joined by dots (a last
\* length of 0 is the trailing dot)
NameOf(lens) == join_asciis([k \in 1..Len(lens) |-> LabelOf(lens[k], k)])

\* every name of up to MaxLabels labels of 0, 1 or 2 bytes
SmallNames ==
    { NameOf(lens) : lens \in UNION { [1..n -> {0, 1, 2}] : n \in 1..MaxLabels } }

\* names at the limits of 63 bytes a label and 255 bytes a name
BoundaryNames ==
    { NameOf(lens) : lens \in
        { <<63>>, <<63, 0>>, <<64>>, <<64, 0>>, <<1, 64, 0>>,
          <<63, 63, 63, 61, 0>>, <<63, 63, 63, 62, 0>>, <<63, 63, 63, 63>>,
          <<63, 63, 63, 63, 0>>, <<63, 63, 63, 62>> } }

\* "blog.adamchalmers.com." (src/src/main.rs) and a name that is not ASCII
BlogName ==
    <<98, 108, 111, 103, 46, 97, 100, 97, 109, 99, 104, 97, 108, 109, 101,
      114, 115, 46, 99, 111, 109, 46>>

Names == SmallNames \cup BoundaryNames \cup {BlogName, <<97, 233, 46>>}

Ids == {0, 33, 65535}

InitQuery ==
    /\ pc = "call"
    /\ query \in [id : Ids, name : Names, record_type : RecordTypes]
    /\ input = <<>>
    /\ start = 0
    /\ isize_bits = 64
    /\ ret = <<>>
    /\ msg = <<>>
    /\ body = <<>>
    /\ io = NoIO

\* Message::new_query(id, domain_name, record_type)
NewQuery ==
    /\ pc = "call"
    /\ msg' = new_query(query.id, query.name, query.record_type)
    /\ pc' = "new_query"
    /\ UNCHANGED <<input, start, isize_bits, ret, query, body, io>>

\* msg.serialize_bytes()
SerializeBytes ==
    /\ pc = "new_query"
    /\ msg.ok
    /\ body' = serialize_bytes(msg.val)
    /\ pc' = "serialize"
    /\ UNCHANGED <<input, start, isize_bits, ret, query, msg, io>>

\* Message::deserialize(body)
DeserializeBody ==
    /\ pc = "serialize"
    /\ body.ok
    /\ input' = body.val
    /\ ret' = Message_deserialize(body.val, isize_bits)
    /\ pc' = "deserialize"
    /\ UNCHANGED <<start, isize_bits, query, msg, body, io>>

\* Entry::new(labels, record_type).serialize(&mut bv), the labels not passed
\* through the checks of new_query (as test_serialize_entry builds them)
EntrySerialize ==
    /\ pc = "call"
    /\ body' = Let(Entry_serialize(Entry_new(split(query.name),
                                             query.record_type)), LAMBDA e :
               IF e.ok THEN TryOk(read_to_end(e.val)) ELSE e)
    /\ pc' = "entry_serialize"
    /\ UNCHANGED <<input, start, isize_bits, ret, query, msg, io>>

NextQuery == NewQuery \/ SerializeBytes \/ DeserializeBody \/ EntrySerialize

SpecQuery == InitQuery /\ [][NextQuery]_vars

-----------------------------------------------------------------------------
(* Properties *)

\* C1: for every buffer given to Message::deserialize the call ends by
\* returning a Message or an explicit error value; no input makes it panic
\* or abort.  (Checked under Spec.  The code unwraps the parser's result, so
\* every decode error is a panic.)
C1_DeserializeNeverPanics ==
    pc = "deserialize" => ret.kind \in {"ok", "err"}

\* C1 failing state: a decode error that Message::deserialize unwrapped.
C1_Panicked ==
    pc = "deserialize" /\ ret.kind = "panic" /\ ret.why = "unwrap"

\* C2: parse_name terminates for every buffer and start offset: the call
\* stack is never exhausted and one name costs no more pointer dereferences
\* than the buffer has bytes.  (Checked under SpecName.)
C2_ParseNameBounded ==
    pc = "parse_name" => ret.kind # "overflow" /\ ret.derefs <= Len(input)

\* C2 failing state: the pointer at offset 0 aimed at offset 0 is followed
\* until the call stack is exhausted.
C2_StackExhausted ==
    pc = "parse_name" /\ input = <<192, 0>> /\ ret.kind = "overflow"

\* C3: a name decode that meets a pointer whose target is at or after the
\* pointer's own offset is rejected with an error value and never decoded
\* to a name.  (Checked under SpecName.  The code keeps no chase depth, so
\* the 32-pointer half of the claim has no counterpart in it.)
C3_ForwardPointerRejected ==
    pc = "parse_name" /\ ret.fwd => ret.kind = "err"

\* C3 failing state: a name decoded to a value through a forward pointer.
C3_ForwardPointerDecoded ==
    pc = "parse_name" /\ ret.fwd /\ ret.kind = "ok"

\* C4: message decode is all-or-nothing: when the header decode, a question
\* decode or a record decode fails, Message::deserialize returns no Message,
\* not even one holding the sections decoded before the failure.
C4_AllOrNothing ==
    pc = "deserialize" /\ (\E k \in 1..Len(ret.trace) : ret.trace[k] # "ok")
        => ret.kind # "ok" /\ ret.val = <<>>

\* C4 witness: the header and the question were decoded, a record after
\* them failed.
C4_Witness ==
    /\ pc = "deserialize"
    /\ Len(ret.trace) >= 3
    /\ ret.trace[1] = "ok"
    /\ ret.trace[2] = "ok"
    /\ ret.trace[Len(ret.trace)] # "ok"
    /\ ret.kind # "ok"

\* C5: header decode of a 12-byte header with a non-zero Z field fails with
\* an ordinary error value rather than panicking.  (Checked under
\* SpecHeader.)
C5_ReservedBitsAreAnError ==
    pc = "header" /\ Len(input) = EXPECTED_SIZE_BYTES
                  /\ Field(input[4], 1, 3) # 0
        => ret.kind = "err"

\* C5 failing state: the assert on the Z bits fired.
C5_AssertFired ==
    pc = "header" /\ Len(input) = EXPECTED_SIZE_BYTES
                  /\ Field(input[4], 1, 3) # 0
                  /\ ret.kind = "panic" /\ ret.why = "assert"

\* C6: an accepted record's RDATA parser consumed exactly RDLENGTH bytes.
\* (Checked under SpecRecord.)
C6_RdataConsumesRdlength ==
    pc = "parse_record" /\ ret.kind = "ok"
        => ret.val.consumed = ret.val.rdlength

\* C6 failing state: a record accepted with RDATA bytes left over.
C6_UnderConsumed ==
    pc = "parse_record" /\ ret.kind = "ok"
                        /\ ret.val.consumed < ret.val.rdlength

\* C7: in every Message returned by a successful decode the four counts of
\* the header equal the lengths of the question, answer, authority and
\* additional lists.
C7_CountsMatchSections ==
    pc = "deserialize" /\ ret.kind = "ok"
        => /\ ret.val.header.question_count = Len(ret.val.question)
           /\ ret.val.header.answer_count = Len(ret.val.answer)
           /\ ret.val.header.name_server_count = Len(ret.val.authority)
           /\ ret.val.header.additional_records_count = Len(ret.val.additional)

\* C7 witness: a decoded Message with a question, an answer and an
\* authority record.
C7_Witness ==
    /\ pc = "deserialize"
    /\ ret.kind = "ok"
    /\ Len(ret.val.question) = 1
    /\ Len(ret.val.answer) = 1
    /\ Len(ret.val.authority) = 1

\* C8: record decode accepts a TTL exactly when it is at most 2^31 - 1: a
\* well-formed record with TTL 0x7FFFFFFF is accepted, and no decoded record
\* has a TTL above 2^31 - 1.  (Checked under SpecRecord, for parse_record
\* and for Record::deserialize.)
C8_TtlBound ==
    pc \in {"parse_record", "Record::deserialize"}
        => /\ ret.kind = "ok" => ret.val.ttl.hi < 32768
           /\ input = MessageBytes(129, 128, 1, 1, 0, 0, 1,
                          <<Template("plain", "A4", 1, <<127, 255, 255, 255>>)>>)
                => ret.kind = "ok"

\* C8 failing state: Record::deserialize on a 64-bit target returns a record
\* whose TTL is 2^31 or more.
C8_LargeTtlAccepted ==
    pc = "Record::deserialize" /\ isize_bits = 64 /\ ret.kind = "ok"
                               /\ ret.val.ttl.hi >= 32768

\* the names the round trip is claimed for: ASCII, at most 255 bytes, every
\* label at most 63 bytes
ValidName(name) ==
    /\ IsAscii(name)
    /\ Len(name) <= MAX_NAME_BYTES
    /\ \A k \in 1..Len(split(name)) : Len(split(name)[k]) <= MAX_LABEL_BYTES

\* C9: for every id, valid name and record type, decoding the serialized
\* new_query succeeds and gives back the id, recursion_desired,
\* question_count and the question entry.  (Checked under SpecQuery.)
C9_RoundTrip ==
    pc = "deserialize" /\ ValidName(query.name)
        => /\ ret.kind = "ok"
           /\ ret.val.header.id = msg.val.header.id
           /\ ret.val.header.recursion_desired
                 = msg.val.header.recursion_desired
           /\ ret.val.header.question_count = msg.val.header.question_count
           /\ ret.val.question = msg.val.question

\* C9 failing state: the bytes serialized for a valid name make the decoder
\* panic.
C9_DecodePanics ==
    pc = "deserialize" /\ ValidName(query.name) /\ ret.kind = "panic"

\* q is labels of 1..63 bytes, each after its length byte, then one zero
\* byte and nothing more; k is the offset of the next length byte
RECURSIVE IsQName(_, _)
IsQName(q, k) ==
    IF k > Len(q) THEN FALSE
    ELSE IF q[k] = 0 THEN k = Len(q)
    ELSE IF q[k] > MAX_LABEL_BYTES THEN FALSE
    ELSE IsQName(q, k + q[k] + 1)

\* C10: for every name new_query accepts, the serialized question is a
\* QNAME of labels with length bytes in 1..63 ended by exactly one zero
\* byte, followed by the 16-bit type and the 16-bit class IN.  (Checked
\* under SpecQuery.)
C10_QNameWellFormed ==
    pc = "serialize" /\ body.ok
        => LET b == body.val
               n == Len(b)
           IN /\ n >= EXPECTED_SIZE_BYTES + 5
              /\ IsQName(SubSeq(b, EXPECTED_SIZE_BYTES + 1, n - 4), 1)
              /\ b[n - 3] * 256 + b[n - 2] = RecordType_num(query.record_type)
              /\ b[n - 1] * 256 + b[n] = Class_num("IN")

\* C10 failing state: the serialized QNAME of an accepted name does not end
\* with a zero byte.
C10_NoTerminator ==
    pc = "serialize" /\ body.ok /\ body.val[Len(body.val) - 4] # 0

\* the longest label of a name
MaxLabelLen(name) ==
    Let(split(name), LAMBDA labels :
    Let({ Len(labels[k]) : k \in 1..Len(labels) }, LAMBDA lens :
    CHOOSE n \in lens : \A l \in lens : l <= n))

\* C11: building and serializing a query whose longest label has exactly 63
\* bytes succeeds (the name being ASCII and at most 255 bytes), and a name
\* with a label of 64 bytes or more fails in new_query and in
\* Entry::serialize with an error and produces no bytes.  (Checked under
\* SpecQuery.)
C11_LabelBound ==
    /\ pc \in {"new_query", "serialize", "deserialize"}
          /\ MaxLabelLen(query.name) >= 64
          => ~msg.ok /\ pc = "new_query" /\ body = <<>>
    /\ pc = "entry_serialize" /\ MaxLabelLen(query.name) >= 64 => ~body.ok
    /\ pc = "new_query" /\ ValidName(query.name) => msg.ok
    /\ pc = "serialize" => body.ok
    /\ pc = "entry_serialize" /\ MaxLabelLen(query.name) <= 63 => body.ok

\* C11 witness: a query with a 63-byte label was built and serialized.
C11_Witness ==
    pc = "serialize" /\ MaxLabelLen(query.name) = 63 /\ body.ok

\* C12: for every name new_query accepts, the encoded name (length octets
\* and label bytes, the terminating zero included) is at most 255 bytes.
\* (Checked under SpecQuery.)
C12_EncodedNameBound ==
    pc = "serialize" /\ body.ok
        => Len(body.val) - EXPECTED_SIZE_BYTES - 4 <= MAX_NAME_BYTES

\* C12 failing state: an accepted name of 255 characters whose encoding has
\* 256 bytes.
C12_EncodedTooLong ==
    pc = "serialize" /\ body.ok /\ Len(query.name) = MAX_NAME_BYTES
        /\ Len(body.val) - EXPECTED_SIZE_BYTES - 4 = MAX_NAME_BYTES + 1

\* C13: a question or a record whose TYPE is 99 makes the decode of the
\* whole message fail with an error value (UnknownRecordType); the message
\* is never decoded, partially or with an opaque record.  (Checked under
\* Spec.)
C13_UnknownTypeIsAnError ==
    pc = "deserialize" /\ input \in UnknownTypeRecords \cup {UnknownTypeQuestion}
        => ret.kind = "err"

\* C13 failing state: the record of TYPE 99 was reached after a decoded
\* header and question, and the call panicked.
C13_UnknownTypePanics ==
    /\ pc = "deserialize"
    /\ input \in UnknownTypeRecords
    /\ ret.trace = <<"ok", "ok", "err">>
    /\ ret.kind = "panic"

\* the 14-bit offset of the pointer whose two bytes are at offset p of buf
PointerTarget(buf, p) == (At(buf, p) % 64) * 256 + At(buf, p + 1)

\* C14: a name that is a pointer at offset p to an earlier offset decodes to
\* the name decoded at that absolute offset of the whole message, the labels
\* read before a pointer come first, and the decode of what follows resumes
\* at p + 2.  Both answer names of test_parse_msg (pointers to offset 12)
\* decode to the question's name.  (Checked under SpecName.)
C14_PointerDecoding ==
    pc = "parse_name" =>
      /\ start + 2 <= Len(input) /\ At(input, start) >= POINTER_HEADER
            /\ PointerTarget(input, start) < start
         => LET tgt == parse_name(input,
                         Slice(PointerTarget(input, start), Len(input)), 0)
            IN tgt.kind = "ok"
                 => /\ ret.kind = "ok"
                    /\ ret.val = tgt.val
                    /\ ret.rest = Slice(start + 2, Len(input))
      /\ input = <<1, 97, 0, 1, 98, 192, 0>> /\ start = 3
         => /\ ret.kind = "ok"
            /\ ret.val = <<98, 46, 97, 46>>
            /\ ret.rest = Slice(7, 7)
      /\ input = TestParseMsg /\ start \in {39, 55}
         => /\ ret.kind = "ok"
            /\ ret.val = BlogName
            /\ ret.rest = Slice(start + 2, Len(input))

\* C14 witness: the name of the second answer of test_parse_msg was decoded
\* through its pointer.
C14_Witness ==
    /\ pc = "parse_name"
    /\ input = TestParseMsg
    /\ start = 55
    /\ ret.kind = "ok"
    /\ ret.derefs = 1
    /\ ret.val = BlogName

\* h is the header of a query: qr unset, opcode Query, recursion desired,
\* no other flag, NoError, one question and no record
IsQueryHeader(h, id) ==
    /\ h.id = id
    /\ h.is_query = FALSE
    /\ h.opcode = "Query"
    /\ h.recursion_desired = TRUE
    /\ h.authoritative_answer = FALSE
    /\ h.truncation = FALSE
    /\ h.recursion_available = FALSE
    /\ h.resp_code = "NoError"
    /\ h.question_count = 1
    /\ h.answer_count = 0
    /\ h.name_server_count = 0
    /\ h.additional_records_count = 0

\* C15: for every id, Header::new_query(id) is a query header, and the
\* Message built by Message::new_query has that header, exactly one question
\* entry and empty answer, authority and additional lists.  (Checked under
\* SpecQuery.)
C15_QueryShape ==
    /\ \A id \in Ids : IsQueryHeader(Header_new_query(id), id)
    /\ pc # "call" /\ pc # "entry_serialize" /\ msg.ok
          => /\ IsQueryHeader(msg.val.header, query.id)
             /\ Len(msg.val.question) = 1
             /\ msg.val.question[1].record_type = query.record_type
             /\ msg.val.question[1].record_qclass = "IN"
             /\ msg.val.answer = <<>>
             /\ msg.val.authority = <<>>
             /\ msg.val.additional = <<>>

\* C15 witness: a query with the largest id was built.
C15_Witness ==
    pc = "new_query" /\ msg.ok /\ query.id = 65535
        /\ msg.val.header.id = 65535

-----------------------------------------------------------------------------
(* Header::serialize applied to every header of a bounded set, and         *)
(* Header::deserialize applied to the bytes written                        *)

Opcodes == {"Query", "InverseQuery", "Status"}

ResponseCodes ==
    {"NoError", "FormatError", "ServerFailure", "NameError", "NotImplemented",
     "Refused"}

\* the four counts of a header
CountTuples ==
    {<<0, 0, 0, 0>>, <<1, 0, 0, 0>>, <<1, 2, 3, 4>>, <<65535, 258, 0, 1>>,
     <<0, 65535, 1, 515>>}

Headers ==
    { [id |-> id, is_query |-> f[1], opcode |-> op,
       authoritative_answer |-> f[2], truncation |-> f[3],
       recursion_desired |-> f[4], recursion_available |-> f[5],
       resp_code |-> rc,
       question_count |-> c[1], answer_count |-> c[2],
       name_server_count |-> c[3], additional_records_count |-> c[4]] :
        id \in Ids \cup {256}, f \in [1..5 -> BOOLEAN], op \in Opcodes,
        rc \in ResponseCodes, c \in CountTuples }

InitHeaderValue ==
    /\ pc = "call"
    /\ query \in Headers
    /\ input = <<>>
    /\ start = 0
    /\ isize_bits = 64
    /\ ret = <<>>
    /\ msg = <<>>
    /\ body = <<>>
    /\ io = NoIO

\* header.serialize(&mut bv) on an empty bv, then the bytes of bv; the
\* function asserts that it wrote 96 bits
SerializeHeader ==
    /\ pc = "call"
    /\ body' = Let(Header_serialize(query), LAMBDA bv :
               [ok |-> Len(bv) = 8 * EXPECTED_SIZE_BYTES,
                val |-> read_to_end(bv),
                bits_written |-> Len(bv)])
    /\ pc' = "Header::serialize"
    /\ UNCHANGED <<input, start, isize_bits, ret, query, msg, io>>

\* nom::bits::bits(Header::deserialize)(body)
DeserializeSerialized ==
    /\ pc = "Header::serialize"
    /\ body.ok
    /\ input' = body.val
    /\ ret' = Header_deserialize(body.val, Slice(0, Len(body.val)))
    /\ pc' = "Header::deserialize"
    /\ UNCHANGED <<start, isize_bits, query, msg, body, io>>

NextHeaderValue == SerializeHeader \/ DeserializeSerialized

SpecHeaderValue == InitHeaderValue /\ [][NextHeaderValue]_vars

\* the wire values of the opcodes and of the response codes (RFC 1035)
OpcodeNum(op) ==
    CASE op = "Query" -> 0 [] op = "InverseQuery" -> 1 [] op = "Status" -> 2

ResponseCodeNum(rc) ==
    CASE rc = "NoError" -> 0
      [] rc = "FormatError" -> 1
      [] rc = "ServerFailure" -> 2
      [] rc = "NameError" -> 3
      [] rc = "NotImplemented" -> 4
      [] rc = "Refused" -> 5

\* C16: for every Header, Header::serialize writes exactly 96 bits: id, qr,
\* opcode, aa, tc, rd, ra, three zero Z bits, rcode and the four counts, in
\* that order; Header::deserialize of those 12 bytes returns an equal
\* header and consumes exactly 12 bytes.  (Checked under SpecHeaderValue.)
C16_HeaderRoundTrip ==
    /\ pc \in {"Header::serialize", "Header::deserialize"}
          => LET b == body.val
                 h == query
             IN /\ body.ok
                /\ body.bits_written = 96
                /\ Len(b) = 12
                /\ b[1] * 256 + b[2] = h.id
                /\ BitOf(b[3], 0) = Bit(h.is_query)
                /\ Field(b[3], 1, 4) = OpcodeNum(h.opcode)
                /\ BitOf(b[3], 5) = Bit(h.authoritative_answer)
                /\ BitOf(b[3], 6) = Bit(h.truncation)
                /\ BitOf(b[3], 7) = Bit(h.recursion_desired)
                /\ BitOf(b[4], 0) = Bit(h.recursion_available)
                /\ Field(b[4], 1, 3) = 0
                /\ Field(b[4], 4, 4) = ResponseCodeNum(h.resp_code)
                /\ b[5] * 256 + b[6] = h.question_count
                /\ b[7] * 256 + b[8] = h.answer_count
                /\ b[9] * 256 + b[10] = h.name_server_count
                /\ b[11] * 256 + b[12] = h.additional_records_count
    /\ pc = "Header::deserialize"
          => /\ ret.kind = "ok"
             /\ ret.val = query
             /\ ret.rest = Slice(12, 12)

\* C16 witness: a header with every flag set, Status, Refused and large
\* counts came back from its bytes.
C16_Witness ==
    /\ pc = "Header::deserialize"
    /\ query.is_query /\ query.authoritative_answer /\ query.truncation
    /\ query.recursion_desired /\ query.recursion_available
    /\ query.opcode = "Status" /\ query.resp_code = "Refused"
    /\ query.question_count = 65535
    /\ ret.kind = "ok" /\ ret.val = query

\* C17: header decode maps opcode 0, 1, 2 to Query, InverseQuery, Status
\* and response code 0..5 to NoError .. Refused; an opcode in 3..15 or a
\* response code in 6..15 makes the decode fail with an error value that
\* carries the offending number.  (Checked under SpecHeader, on 12-byte
\* headers.)
C17_OpcodeAndRcodeTables ==
    pc = "header" /\ Len(input) = EXPECTED_SIZE_BYTES
        => LET op == Field(input[3], 1, 4)
               rc == Field(input[4], 4, 4)
           IN /\ ret.kind = "ok"
                    => /\ op <= 2 /\ OpcodeNum(ret.val.opcode) = op
                       /\ rc <= 5 /\ ResponseCodeNum(ret.val.resp_code) = rc
              /\ op >= 3 => ret.kind = "err" /\ ret.val = <<op>>
              /\ op <= 2 /\ rc >= 6 => ret.kind = "err" /\ ret.val = <<rc>>

\* C17 failing state: opcode 3 was refused with nom's MapRes error, which
\* holds no number.
C17_ValueDropped ==
    /\ pc = "header"
    /\ Len(input) = EXPECTED_SIZE_BYTES
    /\ Field(input[3], 1, 4) = 3
    /\ ret.kind = "err"
    /\ ret.why = "MapRes"
    /\ ret.val = <<>>

-----------------------------------------------------------------------------
(* The one-shot query flow: main (src/src/main.rs) calling send_req and    *)
(* print_resp (src/src/io.rs).  What is printed is kept as the sequence of *)
(* the kinds of the lines.                                                 *)

Lines(kind, n) == [k \in 1..n |-> kind]

\* A section of records: its title and one line a record, if there is one
Section(title, records) ==
    IF Len(records) = 0 THEN <<>>
    ELSE <<title>> \o Lines("record", Len(records))

FlowResult(result, why, out) == [result |-> result, why |-> why, out |-> out]

\* A print_resp for which a query-id mismatch is an error.
print_resp_decoded_fatal_mismatch(response_msg, sent_query_id) ==
    IF sent_query_id # response_msg.header.id
    THEN FlowResult("err", "Mismatch between query IDs", <<>>)
    ELSE IF response_msg.header.resp_code # "NoError"
    THEN FlowResult("err", "Error from resolver", <<>>)
    ELSE FlowResult("ok", "none",
             <<"Questions:">>
             \o Lines("question", Len(response_msg.question))
             \o Section("Answers:", response_msg.answer)
             \o Section("Authority records:", response_msg.authority)
             \o Section("Additional records:", response_msg.additional))

\* A print_resp that prints the response whatever its response code.
print_resp_decoded_any_rcode(response_msg, sent_query_id) ==
    Let(IF sent_query_id # response_msg.header.id
        THEN <<"Mismatch between query IDs">> ELSE <<>>, LAMBDA mismatch :
    FlowResult("ok", "none",
             mismatch
             \o <<"Questions:">>
             \o Lines("question", Len(response_msg.question))
             \o Section("Answers:", response_msg.answer)
             \o Section("Authority records:", response_msg.authority)
             \o Section("Additional records:", response_msg.additional)))

\* print_resp from the decoded message on: the id comparison, the response
\* code, the questions and the three record sections
print_resp_decoded(response_msg, sent_query_id) ==
    Let(IF sent_query_id # response_msg.header.id
        THEN <<"Mismatch between query IDs">> ELSE <<>>, LAMBDA mismatch :
    IF response_msg.header.resp_code # "NoError"
    THEN FlowResult("err", "Error from resolver", mismatch)
    ELSE FlowResult("ok", "none",
             mismatch
             \o <<"Questions:">>
             \o Lines("question", Len(response_msg.question))
             \o Section("Answers:", response_msg.answer)
             \o Section("Authority records:", response_msg.authority)
             \o Section("Additional records:", response_msg.additional)))

\* print_resp(resp, len, sent_query_id, verbose)
print_resp(resp, len, sent_query_id, verbose, bits) ==
    Let(IF verbose THEN <<"Response size", "resp">> ELSE <<>>, LAMBDA head :
    Let(Message_deserialize(SubSeq(resp, 1, len), bits), LAMBDA d :
    CASE d.kind = "ok" ->
           Let(print_resp_decoded(d.val, sent_query_id), LAMBDA r :
           FlowResult(r.result, r.why, head \o r.out))
      [] d.kind = "err" ->
           FlowResult("err", "Error parsing response", head)
      [] OTHER ->
           FlowResult(d.kind, d.why, head)))

\* What the network does to one call of send_req: a step of it fails, or
\* the datagram net.resp comes back.
NetFailures ==
    {"bind fails", "connect fails", "send fails", "short send", "recv fails"}

\* send_req(msg, resolver, verbose) against the network behaviour net:
\* sends and recvs count the calls of socket.send and socket.recv
send_req(m, net, verbose) ==
    CASE net.kind \in {"bind fails", "connect fails"} ->      \* .expect()
           [result |-> "panic", sends |-> 0, recvs |-> 0, resp |-> <<>>,
            len |-> 0]
      [] OTHER ->
           Let(serialize_bytes(m), LAMBDA b :
           IF ~b.ok
           THEN [result |-> "err", sends |-> 0, recvs |-> 0, resp |-> <<>>,
                 len |-> 0]
           ELSE CASE net.kind \in {"send fails", "short send"} ->
                       [result |-> "panic", sends |-> 1, recvs |-> 0,
                        resp |-> <<>>, len |-> 0]
                  [] net.kind = "recv fails" ->
                       [result |-> "err", sends |-> 1, recvs |-> 1,
                        resp |-> <<>>, len |-> 0]
                  [] OTHER ->
                       \* response_buf is longer than what was received
                       [result |-> "ok", sends |-> 1, recvs |-> 1,
                        resp |-> net.resp \o <<0, 0>>,
                        len |-> Len(net.resp)])

\* the datagrams the resolver may answer with: every flag variant cut at
\* every length, the responses of the repository's tests, and a response
\* with a record in each section
Responses ==
    HeaderMessages \cup {TestParseMsg, TestSoaMsg}
    \cup { MessageBytes(129, 128, 1, 1, 1, 1, 1,
                        <<PlainRecord, PlainRecord, PlainRecord>>) }

Nets ==
    { [kind |-> k, resp |-> <<>>] : k \in NetFailures }
    \cup { [kind |-> "response", resp |-> r] : r \in Responses }

FlowQueries ==
    [id : {33, 34},
     name : {NameOf(<<1, 0>>), NameOf(<<1>>), NameOf(<<64, 0>>)},
     record_type : {"A"},
     verbose : BOOLEAN]

InitFlow ==
    /\ pc = "main"
    /\ query \in FlowQueries
    /\ input = <<>>
    /\ start = 0
    /\ isize_bits = 64
    /\ ret = <<>>
    /\ msg = <<>>
    /\ body = <<>>
    /\ io = NoIO

\* let msg = Message::new_query(query_id, domain_name, record_type).unwrap();
MainNewQuery ==
    /\ pc = "main"
    /\ msg' = new_query(query.id, query.name, query.record_type)
    /\ pc' = IF msg'.ok THEN "send_req" ELSE "new_query panicked"
    /\ io' = [io EXCEPT !.out = <<"Resolving">>]
    /\ UNCHANGED <<input, start, isize_bits, ret, query, body>>

\* let (resp, len) = send_req(msg).unwrap();
MainSendReq ==
    /\ pc = "send_req"
    /\ \E net \in Nets :
          LET r == send_req(msg.val, net, query.verbose) IN
          /\ io' = [io EXCEPT !.sends = io.sends + r.sends,
                              !.recvs = io.recvs + r.recvs,
                              !.len = r.len]
          /\ input' = r.resp
          /\ pc' = IF r.result = "ok" THEN "print_resp"
                   ELSE "send_req panicked"
    /\ UNCHANGED <<start, isize_bits, ret, query, msg, body>>

\* if let Err(e) = print_resp(resp, len, query_id) { println!("Error: {e}") }
MainPrintResp ==
    /\ pc = "print_resp"
    /\ ret' = print_resp(input, io.len, query.id, query.verbose, isize_bits)
    /\ io' = [io EXCEPT !.out =
                 io.out \o ret'.out
                 \o (IF ret'.result = "err" THEN <<"Error">> ELSE <<>>)]
    /\ pc' = IF ret'.result \in {"ok", "err"} THEN "done"
             ELSE "print_resp panicked"
    /\ UNCHANGED <<input, start, isize_bits, query, msg, body>>

NextFlow == MainNewQuery \/ MainSendReq \/ MainPrintResp

SpecFlow == InitFlow /\ [][NextFlow]_vars

\* the decode of the datagram the flow received
Received == Message_deserialize(SubSeq(input, 1, io.len), isize_bits)

\* print_resp was called and has returned or panicked
PrintRespEnded == pc \in {"done", "print_resp panicked"}

Printed(line) == \E k \in 1..Len(io.out) : io.out[k] = line

RecordLines == Cardinality({ k \in 1..Len(io.out) : io.out[k] = "record" })

C19_ChecksAfterDecode ==
    PrintRespEnded /\ Received.kind # "ok"
        => /\ ret.result = "err"
           /\ ret.why = "Error parsing response"
           /\ ~Printed("Mismatch between query IDs")
           /\ ~Printed("Questions:")
           /\ ~Printed("question")
           /\ ~Printed("record")

\* C19 failing state: the decode failed and print_resp panicked instead of
\* returning the parse error.
C19_DecodeFailurePanics ==
    /\ pc = "print_resp panicked"
    /\ Received.kind = "panic"
    /\ ret.result = "panic"
    /\ ~Printed("Error")

\* C20: a response code other than NoError ends the flow with an error and
\* no question or record printed; a run makes at most one send and one
\* receive, and after the flow has ended (normally, with an error or with a
\* receive failure) it takes no further step.  (Checked under SpecFlow.)
C20_TerminalNoRetry ==
    /\ io.sends <= 1
    /\ io.recvs <= 1
    /\ pc \in {"done", "print_resp panicked", "send_req panicked",
               "new_query panicked"} => ~ENABLED NextFlow
    /\ PrintRespEnded /\ Received.kind = "ok"
                      /\ Received.val.header.resp_code # "NoError"
          => /\ pc = "done"
             /\ ret.result = "err"
             /\ ret.why = "Error from resolver"
             /\ Printed("Error")
             /\ ~Printed("Questions:")
             /\ ~Printed("question")
             /\ ~Printed("record")

\* C20 witness: a ServerFailure response ended the flow after one send and
\* one receive.
C20_Witness ==
    /\ pc = "done"
    /\ Received.kind = "ok"
    /\ Received.val.header.resp_code = "ServerFailure"
    /\ ret.why = "Error from resolver"
    /\ io.sends = 1
    /\ io.recvs = 1

-----------------------------------------------------------------------------
(* RDATA of the five record types (src/src/message.rs: parse_rdata) *)

\* the section a lone record of a message of RecordMessages is counted in
Sections == {<<1, 0, 0>>, <<0, 1, 0>>, <<0, 0, 1>>}

\* owner names and RDATA that are well formed: a backward pointer or
\* literal labels; exactly 4 bytes, exactly 16 bytes, one name, or two names
\* and four u32
WellFormedNames == {"back", "lit", "plain"}
WellFormedData == {"A4", "Aaaa", "Cname", "Ns", "Soa"}

\* the message of one question and the well-formed record (n, d)
WellFormedMessage(c, n, d) ==
    MessageBytes(129, 128, 1, c[1], c[2], c[3], 1,
                 <<Template(n, d, 1, <<0, 0, 0, 179>>)>>)

\* what the wire bytes RDataOf(kind) say: the question name is "a."
WireData(kind) ==
    CASE kind = "A4" -> [tag |-> "A", addr |-> RDataOf("A4")]
      [] kind = "Aaaa" -> [tag |-> "Aaaa", addr |-> RDataOf("Aaaa")]
      [] kind = "Cname" -> [tag |-> "Cname", name |-> <<97, Dot>>]
      [] kind = "Ns" -> [tag |-> "Ns", name |-> <<97, Dot>>]
      [] kind = "Soa" ->
           [tag |-> "Soa", mname |-> <<97, Dot>>, rname |-> <<97, Dot>>,
            serial |-> U32(0, 7), refresh |-> U32(0, 43200),
            retry |-> U32(0, 600), expire |-> U32(9, 14976)]

\* C21: a record of type A, AAAA, CNAME, NS or SOA whose RDATA is well
\* formed decodes successfully, and its data is what the wire layout says:
\* 4 bytes of IPv4 address, 16 bytes of IPv6 address, one name decoded
\* against the whole message, or mname, rname, serial, refresh, retry and
\* expire in that order.
C21_EveryTypeDecodes ==
    pc = "parse_record" =>
        \A c \in Sections, n \in WellFormedNames, d \in WellFormedData :
            input = WellFormedMessage(c, n, d) =>
                /\ ret.kind = "ok"
                /\ ret.val.data = WireData(d)

\* an NS record with a well-formed name as RDATA finds no parser
C21_NoParserForType ==
    /\ pc = "parse_record"
    /\ input = WellFormedMessage(<<1, 0, 0>>, "back", "Ns")
    /\ ret.kind = "err"
    /\ ret.why = "NoMatchArm"

\* C22: every name the decoder returns is a dot-joined string that ends in
\* '.', the name made of the root label alone included.
C22_NameEndsInDot ==
    pc = "parse_name" /\ ret.kind = "ok" =>
        /\ Len(ret.val) > 0
        /\ ret.val[Len(ret.val)] = Dot

\* the root name, one zero byte, decodes to the empty string
C22_RootNameIsEmpty ==
    /\ pc = "parse_name"
    /\ input = <<0>>
    /\ start = 0
    /\ ret.kind = "ok"
    /\ ret.val = <<>>

-----------------------------------------------------------------------------
(* Sections in wire order (src/src/message.rs: parse_message) *)

\* the offset at which the item after the first k items starts, the first
\* item starting at off
RECURSIVE OffsetAfter(_, _, _, _, _)
OffsetAfter(buf, which, off, k, bits) ==
    IF k = 0 THEN off
    ELSE Item(buf, which,
              Slice(OffsetAfter(buf, which, off, k - 1, bits), Len(buf)),
              bits).rest.lo

\* the item decoded at the offset off of the message
ItemAt(buf, which, off, bits) == Item(buf, which, Slice(off, Len(buf)), bits).val

\* the SOA data of test_msg_with_soa_records: dns1.p03.nsone.net.,
\* hostmaster.nsone.net., 1643623120, 43200, 600, 604800
TestSoaData ==
    [tag |-> "Soa",
     mname |-> <<100, 110, 115, 49, 46, 112, 48, 51, 46, 110, 115, 111, 110, 101, 46, 110, 101, 116, 46>>,
     rname |-> <<104, 111, 115, 116, 109, 97, 115, 116, 101, 114, 46, 110, 115, 111, 110, 101, 46, 110, 101, 116, 46>>,
     serial |-> U32(25079, 45776), refresh |-> U32(0, 43200),
     retry |-> U32(0, 600), expire |-> U32(9, 14976)]

\* C23: a decoded message holds the header, then question_count questions,
\* then the next answer_count records as answers, the next
\* name_server_count records as authority and the next additional_count
\* records as additional, each list in wire order; the response of
\* test_msg_with_soa_records has no answer and one SOA authority record.
C23_SectionsInWireOrder ==
    pc = "deserialize" /\ ret.kind = "ok" =>
        LET h == Header_deserialize(input, Slice(0, Len(input))).val
            m == ret.val
            r0 == OffsetAfter(input, "question", EXPECTED_SIZE_BYTES,
                              h.question_count, isize_bits)
            Question(k) ==
                ItemAt(input, "question",
                       OffsetAfter(input, "question", EXPECTED_SIZE_BYTES,
                                   k - 1, isize_bits), isize_bits)
            Rec(k) ==
                ItemAt(input, "record",
                       OffsetAfter(input, "record", r0, k - 1, isize_bits),
                       isize_bits)
        IN  /\ m.header = h
            /\ Len(m.question) = h.question_count
            /\ \A k \in 1..Len(m.question) : m.question[k] = Question(k)
            /\ Len(m.answer) = h.answer_count
            /\ \A k \in 1..Len(m.answer) : m.answer[k] = Rec(k)
            /\ Len(m.authority) = h.name_server_count
            /\ \A k \in 1..Len(m.authority) :
                   m.authority[k] = Rec(h.answer_count + k)
            /\ Len(m.additional) = h.additional_records_count
            /\ \A k \in 1..Len(m.additional) :
                   m.additional[k] =
                       Rec(h.answer_count + h.name_server_count + k)
            /\ input = TestSoaMsg =>
                   /\ m.answer = <<>>
                   /\ Len(m.authority) = 1
                   /\ m.authority[1].data = TestSoaData

\* the response of test_msg_with_soa_records decoded: no answer, one
\* authority record
C23_Witness ==
    /\ pc = "deserialize"
    /\ input = TestSoaMsg
    /\ ret.kind = "ok"
    /\ ret.val.answer = <<>>
    /\ Len(ret.val.authority) = 1
    /\ ret.val.authority[1].data.tag = "Soa"

-----------------------------------------------------------------------------
(* Malformed labels and pointers (src/src/message.rs: parse_name) *)

\* The name that starts at off runs into a malformed label: a length byte
\* of the reserved range 64..191, or the end of the buffer before the bytes
\* of a label or before the zero byte.  Pointers are followed, at most
\* fuel of them; a pointer that is cut or aimed past the end is not a
\* malformed label.
RECURSIVE HitsBadLabel(_, _, _)
HitsBadLabel(buf, off, fuel) ==
    IF off >= Len(buf) THEN TRUE
    ELSE Let(At(buf, off), LAMBDA b :
         IF b >= POINTER_HEADER
         THEN IF fuel = 0 \/ off + 2 > Len(buf) THEN FALSE
              ELSE Let(dereference_pointer(b * 256 + At(buf, off + 1)),
                       LAMBDA target :
                       /\ target <= Len(buf)
                       /\ HitsBadLabel(buf, target, fuel - 1))
         ELSE IF b > MAX_LABEL_BYTES THEN TRUE
         ELSE IF off + 1 + b > Len(buf) THEN TRUE
         ELSE IF b = 0 THEN FALSE
         ELSE HitsBadLabel(buf, off + 1 + b, fuel))

\* C24: decoding a name that runs into a length byte of 64..191, or into
\* the end of the buffer before a label's bytes or the zero byte, fails
\* with a decode error; no shortened name is returned.
C24_BadLabelIsAnError ==
    pc = "parse_name" /\ HitsBadLabel(input, start, StackLimit) =>
        ret.kind = "err"

\* a pointer to a reserved length byte: the decode panics
C24_BadLabelPanics ==
    /\ pc = "parse_name"
    /\ input = <<192, 2, 64>>
    /\ start = 0
    /\ HitsBadLabel(input, start, StackLimit)
    /\ ret.kind = "panic"
    /\ ret.why = "unwrap"

-----------------------------------------------------------------------------
(* src/src/message/question.rs: Entry::offsets *)

\* hm.insert(k, v): a HashMap is the function from its keys to its values
HashMap_insert(hm, k, v) ==
    [x \in DOMAIN hm \cup {k} |-> IF x = k THEN v ELSE hm[x]]

\* A loop that advances the offset by the length of the label only, without
\* the length byte.
RECURSIVE offsets_loop_no_length_byte(_, _, _, _)
offsets_loop_no_length_byte(labels, i, curr_record_offset, hm) ==
    IF i >= Len(labels) - 1 THEN hm
    ELSE offsets_loop_no_length_byte(
             labels, i + 1,
             curr_record_offset + Len(labels[i + 1]),
             HashMap_insert(hm, curr_record_offset,
                            join_asciis(SubSeq(labels, i + 1, Len(labels)))))

\* for i in 0..n - 1 { .. }: the iterations from i on (labels[i] of Rust is
\* labels[i + 1] here)
RECURSIVE offsets_loop(_, _, _, _)
offsets_loop(labels, i, curr_record_offset, hm) ==
    IF i >= Len(labels) - 1 THEN hm
    ELSE offsets_loop(
             labels, i + 1,
             curr_record_offset + Len(labels[i + 1]) + 1,
             HashMap_insert(hm, curr_record_offset,
                            join_asciis(SubSeq(labels, i + 1, Len(labels)))))

\* Entry::offsets.  With no label at all, n - 1 underflows: a panic in a
\* debug build, and in a release build the loop indexes past the end of
\* labels, a panic as well.
Entry_offsets(e) ==
    IF Len(e.labels) = 0 THEN [kind |-> "panic", val |-> <<>>]
    ELSE [kind |-> "ok", val |-> offsets_loop(e.labels, 0, 0, <<>>)]

\* "adamchalmers.com." (test_offsets)
AdamName == <<97, 100, 97, 109, 99, 104, 97, 108, 109, 101, 114, 115, 46, 99, 111, 109, 46>>

\* the entries Entry::new builds of the ASCII names, and one of no label
Entries ==
    { Entry_new(split(n), t) :
        n \in { x \in Names \cup {AdamName} : IsAscii(x) },
        t \in {"A", "Cname"} }
    \cup { Entry_new(<<>>, "A") }

InitOffsets ==
    /\ pc = "call"
    /\ query \in Entries
    /\ input = <<>>
    /\ start = 0
    /\ isize_bits = 64
    /\ ret = <<>>
    /\ msg = <<>>
    /\ body = <<>>
    /\ io = NoIO

\* query.offsets()
Offsets ==
    /\ pc = "call"
    /\ ret' = Entry_offsets(query)
    /\ pc' = "Entry::offsets"
    /\ UNCHANGED <<input, start, isize_bits, query, msg, body, io>>

NextOffsets == Offsets

SpecOffsets == InitOffsets /\ [][NextOffsets]_vars

\* the offset of the k-th label in the encoded QNAME: a length byte and the
\* bytes of every label before it
RECURSIVE QNameOffset(_, _)
QNameOffset(labels, k) ==
    IF k = 1 THEN 0
    ELSE QNameOffset(labels, k - 1) + Len(labels[k - 1]) + 1

\* the labels from the k-th to the last but one, a dot after each
RECURSIVE DottedFrom(_, _)
DottedFrom(labels, k) ==
    IF k >= Len(labels) THEN <<>>
    ELSE labels[k] \o <<Dot>> \o DottedFrom(labels, k + 1)

\* C25: for an entry whose labels end with the empty label, Entry::offsets
\* returns one entry a label that is not the last: its key is the offset of
\* the label in the encoded QNAME, its value the name from that label on,
\* ending in '.'; adamchalmers, com, "" give 0: adamchalmers.com., 13: com.
C25_Offsets ==
    /\ pc = "Entry::offsets"
    /\ Len(query.labels) > 0
    /\ query.labels[Len(query.labels)] = <<>>
    =>
    /\ ret.kind = "ok"
    /\ DOMAIN ret.val =
           { QNameOffset(query.labels, k) : k \in 1..(Len(query.labels) - 1) }
    /\ Cardinality(DOMAIN ret.val) = Len(query.labels) - 1
    /\ \A k \in 1..(Len(query.labels) - 1) :
           ret.val[QNameOffset(query.labels, k)] = DottedFrom(query.labels, k)
    /\ query.labels = split(AdamName) =>
           ret.val = (0 :> AdamName @@ 13 :> <<99, 111, 109, Dot>>)

\* the entry of test_offsets and its two offsets
C25_Witness ==
    /\ pc = "Entry::offsets"
    /\ query.labels = <<<<97, 100, 97, 109, 99, 104, 97, 108, 109, 101, 114, 115>>, <<99, 111, 109>>, <<>>>>
    /\ ret.kind = "ok"
    /\ DOMAIN ret.val = {0, 13}
    /\ ret.val[13] = <<99, 111, 109, Dot>>

-----------------------------------------------------------------------------
(* Pointers past the end and failures behind a pointer *)

\* the two bytes at off are a compression pointer
IsPointerAt(buf, off) ==
    /\ off + 2 <= Len(buf)
    /\ At(buf, off) >= POINTER_HEADER

\* C26: a pointer whose target offset is greater than the length of the
\* message produces a decode error, and a failure while decoding the name
\* the pointer aims at is a decode error of the enclosing name.
C26_PointerFailuresAreErrors ==
    pc = "parse_name" /\ IsPointerAt(input, start) =>
        /\ PointerTarget(input, start) > Len(input) => ret.kind = "err"
        /\ /\ PointerTarget(input, start) <= Len(input)
           /\ parse_name(input,
                         Slice(PointerTarget(input, start), Len(input)),
                         1).kind = "err"
           => ret.kind = "err"

\* a pointer to offset 9 of a buffer of two bytes: the slice index panics
C26_PointerPastEndPanics ==
    /\ pc = "parse_name"
    /\ input = <<192, 9>>
    /\ start = 0
    /\ PointerTarget(input, start) > Len(input)
    /\ ret.kind = "panic"
    /\ ret.why = "slice index"


=============================================================================
